---- MODULE Spec2Model ----
(***************************************************************************)
(* A model of minivect's code generator (codegen.py): the C code generator *)
(* CCodeGen walking a tree of nodes and writing lines to a code writer,    *)
(* and the restricted traversal CodeGenCleanup.                            *)
(*                                                                         *)
(* The tree is the input: it is discovered while it is walked, every       *)
(* child visit choosing the child node from a bounded set.  A handler      *)
(* that visits a statement child is cut at that visit: the part before it  *)
(* and the part after it are one action each.                              *)
(***************************************************************************)
EXTENDS Integers, Sequences, FiniteSets, TLC

VARIABLES
    code,               \* the code writer's main buffer: lines and insertion points
    proto_code,         \* code.proto_code: the prototype stream
    declaration_point,  \* code.declaration_point: an insertion point id, 0 = not set
    declaration_levels, \* code.declaration_levels: stack of insertion point ids
    loop_levels,        \* code.loop_levels: stack of insertion point ids
    declared_temps,     \* CCodeGen.declared_temps
    label_counter,      \* CCodeGen.label_counter
    labels,             \* the Label nodes met so far: name and mangled_name
    stack,              \* the handlers in progress, innermost last
    nfuncs,             \* Function nodes lowered or being lowered
    nnodes,             \* statement nodes visited
    nloops,             \* For nodes visited
    funcs,              \* history: the Function nodes lowered, in order
    events,             \* history: calls observed, in order
    ctree,              \* CodeGenCleanup: the tree handed to it
    cwork,              \* CodeGenCleanup: paths still to visit, next first
    cvisited            \* CodeGenCleanup: paths visited, in order

vars == <<code, proto_code, declaration_point, declaration_levels, loop_levels,
          declared_temps, label_counter, labels, stack, nfuncs, nnodes, nloops,
          funcs, events, ctree, cwork, cvisited>>

genvars == <<code, proto_code, declaration_point, declaration_levels, loop_levels,
             declared_temps, label_counter, labels, stack, nfuncs, nnodes, nloops,
             funcs, events>>

cleanvars == <<ctree, cwork, cvisited>>

-----------------------------------------------------------------------------
(* Bounds *)

MaxFuncs == 2
MaxNodes == 3
MaxLabels == 2
MaxRootLabels == 11
MaxRootLines == 1
MaxTreeDepth == 2

None == "<None>"

-----------------------------------------------------------------------------
(* Nodes *)

Variable(n) == [kind |-> "Variable", name |-> n]
Constant(v) == [kind |-> "Constant", value |-> v]
Temp(n, t) == [kind |-> "Temp", name |-> n, type |-> t]
Binop(l, op, r) == [kind |-> "Binop", lhs |-> l, operator |-> op, rhs |-> r]
Unop(op, e) == [kind |-> "Unop", operator |-> op, operand |-> e]
AssignmentExpr(l, r) == [kind |-> "AssignmentExpr", lhs |-> l, rhs |-> r]
Cast(t, e) == [kind |-> "Cast", type |-> t, operand |-> e]
Dereference(e) == [kind |-> "Dereference", operand |-> e]
SingleIndex(l, r) == [kind |-> "SingleIndex", lhs |-> l, rhs |-> r]
ArrayAttribute(n) == [kind |-> "ArrayAttribute", name |-> n]

-----------------------------------------------------------------------------
(* The collaborators: the code writer and the context *)

\* code.mangle(name)
Mangle(name) == name

\* context.declare_type(type)
DeclareType(type) == type

IsLine(it) == it.kind = "line"

Lines(c) == SelectSeq(c, IsLine)

IsIp(it) == it.kind = "ip"

NIps(c) == Len(SelectSeq(c, IsIp))

IndexOfIp(c, id) == CHOOSE i \in 1..Len(c) : c[i].kind = "ip" /\ c[i].id = id

InsertAt(c, i, item) == SubSeq(c, 1, i - 1) \o <<item>> \o SubSeq(c, i, Len(c))

\* writer.putln(text): target 0 is the writer itself, which writes at the end;
\* another target is an insertion point, which writes where it was taken.
\* role, fn and ref record who wrote the line, seq the order of writing.
PutLn(c, target, text, role, fn, ref) ==
    LET item == [kind |-> "line", text |-> text, id |-> 0, role |-> role,
                 fn |-> fn, ref |-> ref, seq |-> Len(Lines(c)) + 1]
    IN  IF target = 0 THEN Append(c, item)
        ELSE InsertAt(c, IndexOfIp(c, target), item)

\* code.insertion_point(): the new insertion point's id is NIps(c) + 1
InsertionPoint(c, role, ref) ==
    Append(c, [kind |-> "ip", text |-> "", id |-> NIps(c) + 1, role |-> role,
               fn |-> 0, ref |-> ref, seq |-> 0])

\* an observed call: a Temp visit (its node and what it returned)
Ev(ev, ref, name, ret, fn) ==
    [ev |-> ev, ref |-> ref, name |-> name, ret |-> ret, fn |-> fn,
     tiled |-> FALSE, may_error |-> FALSE, dl |-> 0, ll |-> 0]

\* an observed step of the lowering of For node k, with the depths of
\* declaration_levels and loop_levels at that time
LoopEv(ev, k, tiled, may_error, dl, ll) ==
    [ev |-> ev, ref |-> k, name |-> "", ret |-> "", fn |-> 0,
     tiled |-> tiled, may_error |-> may_error, dl |-> dl, ll |-> ll]

-----------------------------------------------------------------------------
(* Expressions *)

RECURSIVE Render(_)
\* what visiting an expression node returns
Render(e) ==
    CASE e.kind = "Variable" -> Mangle(e.name)
      [] e.kind = "Constant" -> ToString(e.value)
      [] e.kind = "Temp" -> Mangle(e.name)
      [] e.kind = "ArrayAttribute" -> e.name
      [] e.kind = "Binop" ->
            "(" \o Render(e.lhs) \o " " \o e.operator \o " " \o Render(e.rhs) \o ")"
      [] e.kind = "Unop" -> "(" \o e.operator \o Render(e.operand) \o ")"
      [] e.kind = "AssignmentExpr" -> Render(e.lhs) \o " = " \o Render(e.rhs)
      [] e.kind = "Cast" ->
            "((" \o DeclareType(e.type) \o ") " \o Render(e.operand) \o ")"
      [] e.kind = "Dereference" -> "(*" \o Render(e.operand) \o ")"
      [] e.kind = "SingleIndex" ->
            "(" \o Render(e.lhs) \o "[" \o Render(e.rhs) \o "])"

RECURSIVE TempsIn(_)
\* the Temp nodes visited while visiting an expression node, in order
TempsIn(e) ==
    CASE e.kind = "Temp" -> <<e>>
      [] e.kind \in {"Binop", "AssignmentExpr", "SingleIndex"} ->
            TempsIn(e.lhs) \o TempsIn(e.rhs)
      [] e.kind \in {"Unop", "Cast", "Dereference"} -> TempsIn(e.operand)
      [] OTHER -> <<>>

\* g is the part of the state visiting an expression may change
Gen(dt, c, evs) == [declared_temps |-> dt, code |-> c, events |-> evs]

\* visit_TempNode without the test of declared_temps
visit_TempNode_Redeclare(g, node, dp, fn) ==
    LET name == Mangle(node.name)
    IN  Gen(g.declared_temps \cup {name},
            PutLn(g.code, dp, DeclareType(node.type) \o " " \o name \o ";",
                  "decl", fn, 0),
            Append(g.events, Ev("temp", 0, node.name, name, fn)))

visit_TempNode(g, node, dp, fn) ==
    LET name == Mangle(node.name)
        evs == Append(g.events, Ev("temp", 0, node.name, name, fn))
    IN  IF name \notin g.declared_temps
        THEN Gen(g.declared_temps \cup {name},
                 PutLn(g.code, dp, DeclareType(node.type) \o " " \o name \o ";",
                       "decl", fn, 0),
                 evs)
        ELSE Gen(g.declared_temps, g.code, evs)

RECURSIVE VisitTemps(_, _, _, _)
VisitTemps(g, ts, dp, fn) ==
    IF ts = <<>> THEN g
    ELSE VisitTemps(visit_TempNode(g, Head(ts), dp, fn), Tail(ts), dp, fn)

\* self.visit(e) for an expression node e: its effect on the state
VisitExpr(g, e, dp, fn) == VisitTemps(g, TempsIn(e), dp, fn)

RECURSIVE VisitExprs(_, _, _, _)
\* self.results(e1, e2, ...): the nodes are visited in order
VisitExprs(g, es, dp, fn) ==
    IF es = <<>> THEN g
    ELSE VisitExprs(VisitExpr(g, Head(es), dp, fn), Tail(es), dp, fn)

-----------------------------------------------------------------------------
(* The inputs *)

X == Variable("x")
T == Temp("t", "int")

FunctionNodes ==
    { [name |-> "f", specialization_name |-> "",
       arguments |-> << [variables |-> << [type |-> "int", node |-> X] >>] >>],
      [name |-> "g", specialization_name |-> "_d",
       arguments |-> << >>] }

ReturnOperands == { Binop(X, "+", Constant(1)) }

AssignmentOperands ==
    { AssignmentExpr(Temp("t", "double"), Cast("double", Unop("-", T))) }

ForHeaders ==
    { [init |-> AssignmentExpr(Temp("i", "int"), Constant(0)),
       condition |-> Binop(Temp("i", "int"), "<", Dereference(ArrayAttribute("shape"))),
       step |-> AssignmentExpr(Temp("i", "int"),
                               SingleIndex(ArrayAttribute("strides"), T))] }

LabelNames == {"L", "L1"}

BodyLabelNames == {"L"}

-----------------------------------------------------------------------------
(* The traversal *)

Frame(kind, pc, ref, tiled, handler) ==
    [kind |-> kind, pc |-> pc, ref |-> ref, tiled |-> tiled, handler |-> handler]

Top == stack[Len(stack)]

\* the handler on top is about to visit a statement child
AwaitingChild ==
    /\ stack # <<>>
    /\ \/ Top.kind = "StatList"
       \/ Top.pc = "body"

\* the stack once the child the top handler was visiting has returned
Returned(s) ==
    IF s = <<>> THEN s
    ELSE [s EXCEPT ![Len(s)].pc = IF @ = "body" THEN "after" ELSE @]

\* the child visits the handlers in progress still have to make
Owed(s) == Len(SelectSeq(s, LAMBDA f : f.pc = "body"))

\* every handler in progress can still visit the children it has to
Budget(s, n) == n + Owed(s) <= MaxNodes

Init ==
    /\ code = <<>>
    /\ proto_code = <<>>
    /\ declaration_point = 0
    /\ declaration_levels = <<>>
    /\ loop_levels = <<>>
    /\ declared_temps = {}
    /\ label_counter = 0
    /\ labels = <<>>
    /\ stack = <<>>
    /\ nfuncs = 0
    /\ nnodes = 0
    /\ nloops = 0
    /\ funcs = <<>>
    /\ events = <<>>
    /\ ctree = [kind |-> "Constant", value |-> 0]
    /\ cwork = <<>>
    /\ cvisited = <<>>

\* visit_FunctionArgument
visit_FunctionArgument(node) ==
    LET RECURSIVE Join(_)
        Join(vs) ==
            IF vs = <<>> THEN ""
            ELSE DeclareType(Head(vs).type) \o " " \o Render(Head(vs).node)
                 \o (IF Tail(vs) = <<>> THEN "" ELSE ", " \o Join(Tail(vs)))
    IN  Join(node.variables)

RECURSIVE JoinArgs(_)
\* ", ".join(args)
JoinArgs(args) ==
    IF args = <<>> THEN ""
    ELSE visit_FunctionArgument(Head(args))
         \o (IF Tail(args) = <<>> THEN "" ELSE ", " \o JoinArgs(Tail(args)))

\* proto without the specialization name
Proto_Unspecialized(node) ==
    "static int " \o Mangle(node.name) \o "(" \o JoinArgs(node.arguments) \o ")"

\* proto in visit_FunctionNode
Proto(node) ==
    "static int " \o Mangle(node.name \o node.specialization_name)
    \o "(" \o JoinArgs(node.arguments) \o ")"

\* visit_FunctionNode up to the visit of the body.  Of the node's children only
\* the body is walked here: visiting the arguments again returns their text
\* and writes nothing.
FunctionEnter(node) ==
    /\ stack = <<>>
    /\ nfuncs < MaxFuncs
    /\ Budget(<<>>, nnodes + 1)
    /\ LET fn == nfuncs + 1
           c1 == PutLn(code, 0, Proto(node) \o " {", "open", fn, 0)
       IN  /\ proto_code' = Append(proto_code, Proto(node) \o ";")
           /\ code' = InsertionPoint(c1, "declaration_point", fn)
           /\ declaration_point' = NIps(c1) + 1
           /\ nfuncs' = fn
           /\ funcs' = Append(funcs, node)
           /\ stack' = <<Frame("Function", "body", fn, FALSE, FALSE)>>
    /\ UNCHANGED <<declaration_levels, loop_levels, declared_temps, label_counter,
                   labels, nnodes, nloops, events>>
    /\ UNCHANGED cleanvars

\* visit_FunctionNode after the visit of the body
FunctionExit ==
    /\ stack # <<>>
    /\ Top.kind = "Function"
    /\ Top.pc = "after"
    /\ code' = PutLn(code, 0, "}", "close", nfuncs, 0)
    /\ stack' = Returned(SubSeq(stack, 1, Len(stack) - 1))
    /\ UNCHANGED <<proto_code, declaration_point, declaration_levels, loop_levels,
                   declared_temps, label_counter, labels, nfuncs, nnodes, nloops,
                   funcs, events>>
    /\ UNCHANGED cleanvars

\* visit_StatListNode up to the visit of its first child
StatListEnter ==
    /\ AwaitingChild
    /\ Budget(Append(Returned(stack), Frame("StatList", "list", 0, FALSE, FALSE)),
              nnodes + 1)
    /\ nnodes' = nnodes + 1
    /\ stack' = Append(Returned(stack), Frame("StatList", "list", 0, FALSE, FALSE))
    /\ UNCHANGED <<code, proto_code, declaration_point, declaration_levels,
                   loop_levels, declared_temps, label_counter, labels, nfuncs,
                   nloops, funcs, events>>
    /\ UNCHANGED cleanvars

\* visit_StatListNode after the visit of its last child
StatListExit ==
    /\ stack # <<>>
    /\ Top.kind = "StatList"
    /\ stack' = SubSeq(stack, 1, Len(stack) - 1)
    /\ UNCHANGED <<code, proto_code, declaration_point, declaration_levels,
                   loop_levels, declared_temps, label_counter, labels, nfuncs,
                   nnodes, nloops, funcs, events>>
    /\ UNCHANGED cleanvars

\* visit_ReturnNode
visit_ReturnNode(operand) ==
    /\ AwaitingChild
    /\ Budget(Returned(stack), nnodes + 1)
    /\ LET g == VisitExprs(Gen(declared_temps, code, events), <<operand>>,
                           declaration_point, nfuncs)
       IN  /\ code' = PutLn(g.code, 0, "return " \o Render(operand) \o ";",
                            "return", nfuncs, 0)
           /\ declared_temps' = g.declared_temps
           /\ events' = g.events
    /\ nnodes' = nnodes + 1
    /\ stack' = Returned(stack)
    /\ UNCHANGED <<proto_code, declaration_point, declaration_levels, loop_levels,
                   label_counter, labels, nfuncs, nloops, funcs>>
    /\ UNCHANGED cleanvars

\* visit_AssignmentNode
visit_AssignmentNode(operand) ==
    /\ AwaitingChild
    /\ Budget(Returned(stack), nnodes + 1)
    /\ LET g == VisitExpr(Gen(declared_temps, code, events), operand,
                          declaration_point, nfuncs)
       IN  /\ code' = PutLn(g.code, 0, Render(operand) \o ";", "assign", nfuncs, 0)
           /\ declared_temps' = g.declared_temps
           /\ events' = g.events
    /\ nnodes' = nnodes + 1
    /\ stack' = Returned(stack)
    /\ UNCHANGED <<proto_code, declaration_point, declaration_levels, loop_levels,
                   label_counter, labels, nfuncs, nloops, funcs>>
    /\ UNCHANGED cleanvars

\* context.error_handler(code): the handler, or None (FALSE) when none is asked for
ErrorHandler(may_error) == may_error

\* error_handler.catch_here(code)
catch_here(c, fn, k) == PutLn(c, 0, "catch" \o ToString(k) \o ":", "catch", fn, k)

\* error_handler.cascade(code)
cascade(c, fn, k) == PutLn(c, 0, "cascade" \o ToString(k) \o ";", "cascade", fn, k)

\* context.generate_disposal_code(sink, node.body)
generate_disposal_code(c, sink, fn, k) ==
    PutLn(c, sink, "dispose" \o ToString(k) \o ";", "dispose", fn, k)

\* the sink visit_ForNode hands to generate_disposal_code
DisposalSink(code_writer, disposal_point) == code_writer

\* visit_ForNode opening the levels for a tiled loop too
OpensLevel_Always(is_tiled) == TRUE

\* whether visit_ForNode opens a declaration level and a loop level
OpensLevel(is_tiled) == ~is_tiled

\* visit_ForNode marking the catch and cascade points without a handler
Protects_Always(error_handler) == TRUE

\* whether visit_ForNode marks the catch and cascade points
Protects(error_handler) == error_handler

\* visit_ForNode up to the visit of the body
ForEnter(h, is_tiled, may_error) ==
    /\ AwaitingChild
    /\ Budget(Append(Returned(stack), Frame("For", "body", 0, FALSE, FALSE)),
              nnodes + 1)
    /\ LET k == nloops + 1
           fn == nfuncs
           d == Len(declaration_levels)
           l == Len(loop_levels)
           error_handler == ErrorHandler(may_error)
           e0 == Append(events, LoopEv("for", k, is_tiled, may_error, d, l))
           e1 == IF may_error
                 THEN Append(e0, LoopEv("error_handler", k, is_tiled, may_error, d, l))
                 ELSE e0
           g1 == VisitExprs(Gen(declared_temps, code, e1),
                            <<h.init, h.condition, h.step>>, declaration_point, fn)
           c2 == PutLn(g1.code, 0,
                       "for (" \o Render(h.init) \o "; " \o Render(h.condition)
                       \o "; " \o Render(h.step) \o ") {", "for", fn, k)
           e2 == Append(g1.events, LoopEv("header", k, is_tiled, may_error, d, l))
           c3 == IF OpensLevel(is_tiled)
                 THEN InsertionPoint(InsertionPoint(c2, "declaration_level", k),
                                     "loop_level", k)
                 ELSE c2
           dls == IF OpensLevel(is_tiled)
                  THEN Append(declaration_levels, NIps(c2) + 1)
                  ELSE declaration_levels
           lls == IF OpensLevel(is_tiled)
                  THEN Append(loop_levels, NIps(c2) + 2)
                  ELSE loop_levels
           e3 == IF OpensLevel(is_tiled)
                 THEN Append(e2, LoopEv("push", k, is_tiled, may_error,
                                        Len(dls), Len(lls)))
                 ELSE e2
           e4 == Append(e3, LoopEv("init", k, is_tiled, may_error, Len(dls), Len(lls)))
           g5 == VisitExpr(Gen(g1.declared_temps, c3, e4), h.init,
                           declaration_point, fn)
       IN  /\ code' = g5.code
           /\ declared_temps' = g5.declared_temps
           /\ events' = Append(g5.events,
                               LoopEv("body", k, is_tiled, may_error,
                                      Len(dls), Len(lls)))
           /\ declaration_levels' = dls
           /\ loop_levels' = lls
           /\ nloops' = k
           /\ stack' = Append(Returned(stack),
                              Frame("For", "body", k, is_tiled, error_handler))
    /\ nnodes' = nnodes + 1
    /\ UNCHANGED <<proto_code, declaration_point, label_counter, labels, nfuncs,
                   funcs>>
    /\ UNCHANGED cleanvars

\* visit_ForNode after the visit of the body
ForExit ==
    /\ stack # <<>>
    /\ Top.kind = "For"
    /\ Top.pc = "after"
    /\ LET k == Top.ref
           fn == nfuncs
           t == Top.tiled
           m == Top.handler
           d == Len(declaration_levels)
           l == Len(loop_levels)
           c1 == IF Protects(Top.handler) THEN catch_here(code, fn, k) ELSE code
           c2 == IF Protects(Top.handler)
                 THEN InsertionPoint(c1, "disposal_point", k) ELSE c1
           disposal_point == IF Protects(Top.handler) THEN NIps(c1) + 1 ELSE 0
           c3 == IF Protects(Top.handler) THEN cascade(c2, fn, k) ELSE c2
           e3 == IF Protects(Top.handler)
                 THEN events \o << LoopEv("catch_here", k, t, m, d, l),
                                   LoopEv("disposal_point", k, t, m, d, l),
                                   LoopEv("cascade", k, t, m, d, l) >>
                 ELSE events
           c4 == generate_disposal_code(c3, DisposalSink(0, disposal_point), fn, k)
           e4 == Append(e3, LoopEv("dispose", k, t, m, d, l))
           dls == IF OpensLevel(t)
                  THEN SubSeq(declaration_levels, 1, d - 1) ELSE declaration_levels
           lls == IF OpensLevel(t)
                  THEN SubSeq(loop_levels, 1, l - 1) ELSE loop_levels
           e5 == IF OpensLevel(t)
                 THEN Append(e4, LoopEv("pop", k, t, m, Len(dls), Len(lls)))
                 ELSE e4
       IN  /\ code' = PutLn(c4, 0, "}", "endfor", fn, k)
           /\ events' = Append(e5, LoopEv("close", k, t, m, Len(dls), Len(lls)))
           /\ declaration_levels' = dls
           /\ loop_levels' = lls
    /\ stack' = Returned(SubSeq(stack, 1, Len(stack) - 1))
    /\ UNCHANGED <<proto_code, declaration_point, declared_temps, label_counter,
                   labels, nfuncs, nnodes, nloops, funcs>>
    /\ UNCHANGED cleanvars

\* the Label nodes a Jump, a JumpTarget or a visit may refer to: one met before,
\* or (while fewer than bound were met) a new one, whose mangled_name is None
LabelRefs(bound, names) ==
    { [labels |-> labels, i |-> i] : i \in 1..Len(labels) }
    \cup (IF Len(labels) < bound
          THEN { [labels |-> Append(labels, [name |-> nm, mangled_name |-> None]),
                  i |-> Len(labels) + 1] : nm \in names }
          ELSE {})

\* "%s%d" % (node.name, self.label_counter)
LabelName(name, counter) == name \o ToString(counter)

\* visit_LabelNode naming the node on every visit
Unnamed_Always(node) == TRUE

\* whether visit_LabelNode names the node
Unnamed(node) == node.mangled_name = None

\* visit_LabelNode on node i of table L
visit_LabelNode(L, i, counter) ==
    LET named == IF Unnamed(L[i])
                 THEN [L EXCEPT ![i].mangled_name = LabelName(L[i].name, counter)]
                 ELSE L
    IN  [labels |-> named,
         label_counter |-> IF Unnamed(L[i]) THEN counter + 1 ELSE counter,
         ret |-> named[i].mangled_name]

\* where a Jump, JumpTarget or Label node is visited: as a statement child of
\* the handler in progress, or (root) handed to the generator by itself
VisitedAt(root, lines) ==
    IF root
    THEN stack = <<>> /\ nfuncs = 0 /\ Len(code) + lines <= MaxRootLines
    ELSE AwaitingChild /\ Budget(Returned(stack), nnodes + 1)

\* visit_JumpNode
visit_JumpNode(r, root) ==
    /\ VisitedAt(root, 1)
    /\ LET v == visit_LabelNode(r.labels, r.i, label_counter)
       IN  /\ code' = PutLn(code, 0, "goto " \o v.ret \o ";", "goto", nfuncs, r.i)
           /\ labels' = v.labels
           /\ label_counter' = v.label_counter
    /\ nnodes' = IF root THEN nnodes ELSE nnodes + 1
    /\ stack' = Returned(stack)
    /\ UNCHANGED <<proto_code, declaration_point, declaration_levels, loop_levels,
                   declared_temps, nfuncs, nloops, funcs, events>>
    /\ UNCHANGED cleanvars

\* visit_JumpTargetNode
visit_JumpTargetNode(r, root) ==
    /\ VisitedAt(root, 1)
    /\ LET v == visit_LabelNode(r.labels, r.i, label_counter)
       IN  /\ code' = PutLn(code, 0, v.ret \o ":", "target", nfuncs, r.i)
           /\ labels' = v.labels
           /\ label_counter' = v.label_counter
    /\ nnodes' = IF root THEN nnodes ELSE nnodes + 1
    /\ stack' = Returned(stack)
    /\ UNCHANGED <<proto_code, declaration_point, declaration_levels, loop_levels,
                   declared_temps, nfuncs, nloops, funcs, events>>
    /\ UNCHANGED cleanvars

\* visit_LabelNode, the Label node visited by itself
LabelNode(r, root) ==
    /\ VisitedAt(root, 0)
    /\ LET v == visit_LabelNode(r.labels, r.i, label_counter)
       IN  /\ labels' = v.labels
           /\ label_counter' = v.label_counter
    /\ nnodes' = IF root THEN nnodes ELSE nnodes + 1
    /\ stack' = Returned(stack)
    /\ UNCHANGED <<code, proto_code, declaration_point, declaration_levels,
                   loop_levels, declared_temps, nfuncs, nloops, funcs, events>>
    /\ UNCHANGED cleanvars

Next ==
    \/ \E node \in FunctionNodes : FunctionEnter(node)
    \/ FunctionExit
    \/ StatListEnter
    \/ StatListExit
    \/ \E e \in ReturnOperands : visit_ReturnNode(e)
    \/ \E e \in AssignmentOperands : visit_AssignmentNode(e)
    \/ \E h \in ForHeaders, is_tiled \in BOOLEAN, may_error \in BOOLEAN :
          ForEnter(h, is_tiled, may_error)
    \/ ForExit
    \/ \E r \in LabelRefs(MaxLabels, BodyLabelNames) : visit_JumpNode(r, FALSE)
    \/ \E r \in LabelRefs(MaxLabels, BodyLabelNames) : visit_JumpTargetNode(r, FALSE)
    \/ \E r \in LabelRefs(MaxLabels, BodyLabelNames) : LabelNode(r, FALSE)

Spec == Init /\ [][Next]_vars

\* Jump, JumpTarget and Label nodes handed to one generator one after another
LabelNext ==
    \/ \E r \in LabelRefs(MaxRootLabels, LabelNames) : visit_JumpNode(r, TRUE)
    \/ \E r \in LabelRefs(MaxRootLabels, LabelNames) : visit_JumpTargetNode(r, TRUE)
    \/ \E r \in LabelRefs(MaxRootLabels, LabelNames) : LabelNode(r, TRUE)

LabelSpec == Init /\ [][LabelNext]_vars

-----------------------------------------------------------------------------
(* CodeGenCleanup *)

Assignment(e) == [kind |-> "Assignment", operand |-> e]
Return(e) == [kind |-> "Return", operand |-> e]
For(h, b) == [kind |-> "For", init |-> h.init, condition |-> h.condition,
              step |-> h.step, body |-> b]
StatList(ss) == [kind |-> "StatList", stats |-> ss]

SimpleStats ==
    { Assignment(e) : e \in AssignmentOperands } \cup { Return(e) : e \in ReturnOperands }

RECURSIVE TreesOfDepth(_)
\* the statement trees handed to CodeGenCleanup, nested up to d deep
TreesOfDepth(d) ==
    IF d = 0 THEN SimpleStats
    ELSE LET sub == TreesOfDepth(d - 1)
         IN  SimpleStats
             \cup { For(h, b) : h \in ForHeaders, b \in sub }
             \cup { StatList(<<a, b>>) : a \in sub, b \in SimpleStats }

\* a node's child fields in the order visitchildren walks them; a path names a
\* node by the fields that lead to it from the root
ChildAttrs(node) ==
    CASE node.kind = "For" -> <<"init", "condition", "step", "body">>
      [] node.kind = "StatList" -> [i \in 1..Len(node.stats) |-> ToString(i)]
      [] node.kind \in {"Binop", "AssignmentExpr", "SingleIndex"} -> <<"lhs", "rhs">>
      [] node.kind \in {"Unop", "Cast", "Dereference", "Assignment", "Return"} ->
            <<"operand">>
      [] OTHER -> <<>>

Child(node, attr) ==
    CASE node.kind = "StatList" ->
            node.stats[CHOOSE i \in 1..Len(node.stats) : ToString(i) = attr]
      [] attr = "init" -> node.init
      [] attr = "condition" -> node.condition
      [] attr = "step" -> node.step
      [] attr = "body" -> node.body
      [] attr = "lhs" -> node.lhs
      [] attr = "rhs" -> node.rhs
      [] attr = "operand" -> node.operand

RECURSIVE NodeAt(_, _)
NodeAt(node, path) ==
    IF path = <<>> THEN node ELSE NodeAt(Child(node, Head(path)), Tail(path))

\* CodeGenCleanup.visit_ForNode visiting the body as well
CleanupForFields_WithBody == <<"init", "condition", "step", "body">>

\* CodeGenCleanup.visit_ForNode: the fields it visits
CleanupForFields == <<"init", "condition", "step">>

\* the fields of a node CodeGenCleanup visits: visit_ForNode for a For node,
\* visit_Node (visitchildren) for every other kind
CleanupVisits(node) ==
    IF node.kind = "For" THEN CleanupForFields ELSE ChildAttrs(node)

CleanupInit ==
    /\ code = <<>>
    /\ proto_code = <<>>
    /\ declaration_point = 0
    /\ declaration_levels = <<>>
    /\ loop_levels = <<>>
    /\ declared_temps = {}
    /\ label_counter = 0
    /\ labels = <<>>
    /\ stack = <<>>
    /\ nfuncs = 0
    /\ nnodes = 0
    /\ nloops = 0
    /\ funcs = <<>>
    /\ events = <<>>
    /\ ctree \in TreesOfDepth(MaxTreeDepth)
    /\ cwork = << <<>> >>
    /\ cvisited = <<>>

\* CodeGenCleanup.visit(node) for the next node: the node is visited and the
\* fields its handler visits come next, before what was left to visit
CleanupVisit ==
    /\ cwork # <<>>
    /\ LET path == Head(cwork)
           fields == CleanupVisits(NodeAt(ctree, path))
       IN  /\ cvisited' = Append(cvisited, path)
           /\ cwork' = [i \in 1..Len(fields) |-> Append(path, fields[i])]
                       \o Tail(cwork)
    /\ UNCHANGED ctree
    /\ UNCHANGED genvars

CleanupNext == CleanupVisit

CleanupSpec == CleanupInit /\ [][CleanupNext]_vars

-----------------------------------------------------------------------------
(* Properties *)

IsPrefix(a, b) == Len(a) <= Len(b) /\ a = SubSeq(b, 1, Len(a))

TypeNames == {"int", "double"}

\* the places in the final output of the declaration lines of a temporary
DeclarationsOf(name) ==
    LET L == Lines(code)
    IN  { i \in 1..Len(L) :
            L[i].text \in { ty \o " " \o name \o ";" : ty \in TypeNames } }

\* the places in the final output of the lines with a role, written for ref
\* (a For node or a Label node) or in function fn
PlacesOf(role, fn, ref) ==
    LET L == Lines(code)
    IN  { i \in 1..Len(L) : L[i].role = role /\ L[i].fn = fn /\ L[i].ref = ref }

TempVisits == { i \in 1..Len(events) : events[i].ev = "temp" }

\* C1: Temp nodes with the same mangled name, however often they are visited,
\* get exactly one declaration line, and every visit returns the same name.
C1_OneDeclarationPerTemp ==
    \A i \in TempVisits :
        /\ Cardinality(DeclarationsOf(events[i].ret)) = 1
        /\ \A j \in TempVisits :
              Mangle(events[j].name) = Mangle(events[i].name)
                  => events[j].ret = events[i].ret

C1_Witness ==
    /\ stack = <<>>
    /\ \E i, j \in TempVisits :
          /\ i < j
          /\ events[i].name = events[j].name
          /\ events[i].fn # events[j].fn

LabelLines(i) ==
    LET L == Lines(code)
    IN  { n \in 1..Len(L) : L[n].role \in {"goto", "target"} /\ L[n].ref = i }

\* every goto and every jump target written for a Label node names it by the
\* node's mangled name
LabelLinesAgree ==
    LET L == Lines(code)
    IN  \A i \in 1..Len(labels) : \A n \in LabelLines(i) :
            L[n].text = IF L[n].role = "goto"
                        THEN "goto " \o labels[i].mangled_name \o ";"
                        ELSE labels[i].mangled_name \o ":"

\* C2: a Label node's mangled name is assigned once, on its first visit (by
\* itself or through a Jump or JumpTarget), and never changes: every step
\* keeps the names assigned, all gotos and jump targets of a node carry its
\* name, and the counter advances only when a node is named.
C2_LabelNameAssignedOnce ==
    [][ /\ Len(labels') >= Len(labels)
        /\ \A i \in 1..Len(labels) :
              labels'[i].mangled_name = labels[i].mangled_name
        /\ \A i \in 1..Len(labels') : labels'[i].mangled_name # None
        /\ LabelLinesAgree'
        /\ label_counter' = label_counter + (Len(labels') - Len(labels)) ]_vars

C2_Witness ==
    /\ \E i \in 1..Len(labels) :
          \E n, m \in LabelLines(i) :
              /\ Lines(code)[n].role = "goto"
              /\ Lines(code)[m].role = "target"
              /\ n < m
    /\ label_counter = 1

LoopSteps(k) == SelectSeq(events, LAMBDA e : e.ev # "temp" /\ e.ref = k)

StepNames(es) == [i \in 1..Len(es) |-> es[i].ev]

\* the steps of For node k with a name
StepsNamed(k, ev) == SelectSeq(LoopSteps(k), LAMBDA e : e.ev = ev)

Started == 1..nloops

Closed == { k \in 1..nloops : StepsNamed(k, "close") # <<>> }

\* C3: lowering a For node leaves the depths of declaration_levels and of
\* loop_levels as they were; a For that is not tiled has one more level on
\* each while its body is visited and until after disposal, a tiled For has
\* none; the two stacks are always equally deep.
C3_LevelsBalanced ==
    /\ Len(declaration_levels) = Len(loop_levels)
    /\ \A i \in 1..Len(events) : events[i].dl = events[i].ll
    /\ stack = <<>> => Len(declaration_levels) = 0
    /\ Len(declaration_levels) =
          Cardinality({ k \in Started : LET steps == LoopSteps(k)
                                        IN  /\ ~steps[1].tiled
                                            /\ steps[Len(steps)].ev # "close" })
    /\ \A k \in Started :
          LET steps == LoopSteps(k)
              before == steps[1].dl
              inside == IF steps[1].tiled THEN before ELSE before + 1
          IN  /\ \A n \in 1..Len(steps) :
                    steps[n].ev \in {"init", "body", "catch_here", "disposal_point",
                                     "cascade", "dispose"}
                        => steps[n].dl = inside
              /\ \A n \in 1..Len(steps) :
                    steps[n].ev \in {"for", "error_handler", "header", "close"}
                        => steps[n].dl = before
              /\ Cardinality({ n \in 1..Len(steps) : steps[n].ev = "push" }) =
                    (IF steps[1].tiled THEN 0 ELSE 1)
              /\ Cardinality({ n \in 1..Len(steps) : steps[n].ev = "pop" }) =
                    (IF steps[1].tiled \/ steps[Len(steps)].ev # "close"
                     THEN 0 ELSE 1)

C3_Witness ==
    /\ stack = <<>>
    /\ Closed = {1, 2}
    /\ ~LoopSteps(1)[1].tiled
    /\ LoopSteps(2)[1].tiled
    /\ LoopSteps(2)[1].dl = 1
    /\ Len(SelectSeq(events, LAMBDA e : e.ev = "push")) = 1

\* the place in the buffer of the disposal insertion point of For node k
DisposalPoints(k) ==
    { i \in 1..Len(code) :
        code[i].kind = "ip" /\ code[i].role = "disposal_point" /\ code[i].ref = k }

BufferPlaces(role, k) ==
    { i \in 1..Len(code) :
        code[i].kind = "line" /\ code[i].role = role /\ code[i].ref = k }

\* C4: when the body of a For node may error, its disposal code is written
\* once, at the disposal insertion point: after the catch point and before
\* the cascade code.
C4_DisposalAtDisposalPoint ==
    \A k \in Closed :
        LoopSteps(k)[1].may_error =>
            /\ Cardinality(BufferPlaces("dispose", k)) = 1
            /\ \A d \in BufferPlaces("dispose", k) :
                  /\ \A c \in BufferPlaces("catch", k) : c < d
                  /\ \A p \in DisposalPoints(k) : d < p
                  /\ \A c \in BufferPlaces("cascade", k) : d < c

\* the fields of the For node at a path that the traversal has visited
VisitedFields(path) ==
    LET sub == SelectSeq(cvisited, LAMBDA q : Len(q) = Len(path) + 1
                                              /\ SubSeq(q, 1, Len(path)) = path)
    IN  [i \in 1..Len(sub) |-> sub[i][Len(path) + 1]]

\* C5: CodeGenCleanup visits of a For node the fields init, condition and
\* step, in that order, and nothing in or below its body; it walks the
\* children of every other node, and writes nothing.
C5_CleanupSkipsBody ==
    /\ code = <<>> /\ proto_code = <<>>
    /\ \A n \in 1..Len(cvisited) :
          LET path == cvisited[n]
              node == NodeAt(ctree, path)
          IN  /\ \A m \in 1..Len(path) :
                    NodeAt(ctree, SubSeq(path, 1, m - 1)).kind = "For"
                        => path[m] # "body"
              /\ IF node.kind = "For"
                 THEN /\ IsPrefix(VisitedFields(path), <<"init", "condition", "step">>)
                      /\ cwork = <<>>
                            => VisitedFields(path) = <<"init", "condition", "step">>
                 ELSE /\ IsPrefix(VisitedFields(path), ChildAttrs(node))
                      /\ cwork = <<>> => VisitedFields(path) = ChildAttrs(node)

C5_Witness ==
    /\ cwork = <<>>
    /\ ctree.kind = "For"
    /\ ctree.body.kind = "For"
    /\ TempsIn(ctree.init) # <<>>
    /\ Len(cvisited) > 4

\* the signature lowering writes for each of the Function nodes
ExpectedSignature(node) ==
    IF node.name = "f" THEN "static int f(int x)" ELSE "static int g_d()"

FunctionLines(k) == SelectSeq(Lines(code), LAMBDA l : l.fn = k)

FunctionDone(k) == k < nfuncs \/ (k = nfuncs /\ stack = <<>>)

\* the final output: the prototype stream, then the main stream
FinalOutput ==
    LET L == Lines(code)
    IN  proto_code \o [i \in 1..Len(L) |-> L[i].text]

\* C6: lowering a Function node writes one prototype line, the signature
\* and ';', and to the main stream the signature and ' {' first, '}' last
\* and the body's lines between them; f(int x) { return x + 1; } gives
\* the four lines of the scenario, the prototype first.
C6_FunctionShape ==
    /\ Len(proto_code) = nfuncs
    /\ Len(funcs) = nfuncs
    /\ \A k \in 1..nfuncs :
          LET L == Lines(code)
              ls == FunctionLines(k)
              first == CHOOSE i \in 1..Len(L) : L[i].fn = k
                           /\ \A j \in 1..(i - 1) : L[j].fn # k
          IN  /\ proto_code[k] = ExpectedSignature(funcs[k]) \o ";"
              /\ ls # <<>>
              /\ ls[1].text = ExpectedSignature(funcs[k]) \o " {"
              /\ ls = SubSeq(L, first, first + Len(ls) - 1)
              /\ \A i \in 2..Len(ls) : ls[i].role # "open"
              /\ FunctionDone(k) =>
                    /\ ls[Len(ls)].text = "}"
                    /\ ls[Len(ls)].role = "close"
                    /\ \A i \in 1..(Len(ls) - 1) : ls[i].role # "close"
    /\ ( /\ nfuncs = 1
         /\ FunctionDone(1)
         /\ funcs[1].name = "f"
         /\ Len(FunctionLines(1)) = 3
         /\ FunctionLines(1)[2].role = "return" )
       => FinalOutput = << "static int f(int x);", "static int f(int x) {",
                           "return (x + 1);", "}" >>

C6_Witness ==
    /\ nfuncs = 1
    /\ stack = <<>>
    /\ funcs[1].name = "f"
    /\ Len(FunctionLines(1)) = 3
    /\ FunctionLines(1)[2].role = "return"

\* C7: the declaration line of every Temp referenced in a function's body
\* stands, in the final output, after the function's opening line and before
\* every line written at the main cursor while the body was lowered.
C7_DeclarationBeforeBody ==
    \A i \in TempVisits :
        LET k == events[i].fn
            L == Lines(code)
        IN  \E d \in DeclarationsOf(events[i].ret) :
                /\ \A o \in PlacesOf("open", k, 0) : o < d
                /\ \A j \in 1..Len(L) :
                      (L[j].fn = k /\ L[j].role \notin {"open", "decl"}) => d < j

\* C8: in every function a generator lowers, each Temp referenced in the body
\* has exactly one declaration line, standing inside that function.
C8_DeclaredInEveryFunction ==
    \A i \in TempVisits :
        LET k == events[i].fn
        IN  Cardinality({ d \in DeclarationsOf(events[i].ret) :
                            /\ \A o \in PlacesOf("open", k, 0) : o < d
                            /\ \A c \in PlacesOf("close", k, 0) : d < c
                            /\ Lines(code)[d].fn = k }) = 1

\* C9: two different Label nodes never get the same mangled name, and the
\* counter has grown by one for every node named.
C9_LabelNamesUnique ==
    /\ label_counter = Len(labels)
    /\ \A i, j \in 1..Len(labels) :
          i # j => labels[i].mangled_name # labels[j].mangled_name

\* the order of the steps of lowering a For node
ExpectedSteps(is_tiled, may_error) ==
    <<"for">>
    \o (IF may_error THEN <<"error_handler">> ELSE <<>>)
    \o <<"header">>
    \o (IF is_tiled THEN <<>> ELSE <<"push">>)
    \o <<"init", "body">>
    \o (IF may_error THEN <<"catch_here", "disposal_point", "cascade">> ELSE <<>>)
    \o <<"dispose">>
    \o (IF is_tiled THEN <<>> ELSE <<"pop">>)
    \o <<"close">>

\* the place in events of the step of For node k with a name, 0 if none
StepPlace(k, ev) ==
    IF \E i \in 1..Len(events) : events[i].ev = ev /\ events[i].ref = k
    THEN CHOOSE i \in 1..Len(events) : events[i].ev = ev /\ events[i].ref = k
    ELSE 0

\* the names of the Temp nodes visited between two places in events
TempsBetween(a, b) ==
    LET sub == SelectSeq(SubSeq(events, a, b), LAMBDA e : e.ev = "temp")
    IN  [i \in 1..Len(sub) |-> sub[i].name]

\* C10: the steps of lowering a For node come in a fixed order: the error
\* handler (only if the body may error), the header, the push (unless tiled),
\* init once more, the body, then catch_here, the disposal insertion point
\* and cascade (only with a handler), the disposal code, the pop (unless
\* tiled) and the closing brace; what follows the body is not interleaved
\* with anything else.
C10_ForStepOrder ==
    \A k \in Started :
        LET steps == LoopSteps(k)
            afterBody == IF steps[1].may_error THEN "catch_here" ELSE "dispose"
        IN  /\ IsPrefix(StepNames(steps),
                        ExpectedSteps(steps[1].tiled, steps[1].may_error))
            /\ IsPrefix(TempsBetween(StepPlace(k, "init"), StepPlace(k, "body")),
                        TempsBetween(StepPlace(k, "for"), StepPlace(k, "header")))
            /\ ~steps[1].may_error =>
                  /\ \A n \in 1..Len(steps) :
                        steps[n].ev \notin {"catch_here", "cascade"}
            /\ k \in Closed =>
                  /\ StepNames(steps) = ExpectedSteps(steps[1].tiled, steps[1].may_error)
                  /\ \A i \in StepPlace(k, afterBody)..StepPlace(k, "close") :
                        events[i].ref = k /\ events[i].ev # "temp"
                  /\ Cardinality(BufferPlaces("for", k)) = 1
                  /\ Cardinality(BufferPlaces("endfor", k)) = 1
                  /\ \A a \in BufferPlaces("for", k), b \in BufferPlaces("endfor", k),
                        r \in {"catch", "cascade", "dispose"} :
                        \A c \in BufferPlaces(r, k) :
                            code[a].seq < code[c].seq /\ code[c].seq < code[b].seq

C10_Witness ==
    \E k \in Closed :
        /\ LoopSteps(k)[1].may_error
        /\ ~LoopSteps(k)[1].tiled
        /\ TempsBetween(StepPlace(k, "init"), StepPlace(k, "body")) # <<>>
        /\ Len(LoopSteps(k)) = 12

====
